---- MODULE Spec2Model ----
(***************************************************************************)
(* Model of reducesizefordiscord.py: the bitrate / resolution planner of   *)
(* reencode() and calculate_target_resolution(), and the two-pass encode   *)
(* driver run by main().                                                   *)
(*                                                                         *)
(* Python floats are IEEE-754 binary64.  Every float operation of the      *)
(* source is modelled bit-exactly: the exact result is computed on         *)
(* arbitrary-precision naturals (sequences of 15-bit limbs) and rounded to *)
(* 53 significant bits, ties to even.  Overflow to infinity and subnormals *)
(* are outside the value ranges the model draws its inputs from.           *)
(***************************************************************************)
EXTENDS Integers, Sequences, FiniteSets, TLC

\* ------------------------------------------------------------------------
\* Arbitrary-precision naturals: little-endian sequences of limbs < LimbBase,
\* no leading (high) zero limb; <<>> is zero.
\* ------------------------------------------------------------------------
LimbBits == 15
LimbBase == 32768
MantBits == 53

\* 2^k for 0 <= k <= LimbBits
Pow2(k) == <<1, 2, 4, 8, 16, 32, 64, 128, 256, 512, 1024, 2048, 4096, 8192,
             16384, 32768>>[k + 1]

RECURSIVE Zeros(_)
Zeros(k) == IF k = 0 THEN <<>> ELSE <<0>> \o Zeros(k - 1)

RECURSIVE BigNorm(_)
BigNorm(a) ==
    IF a = <<>> THEN <<>>
    ELSE IF a[Len(a)] = 0 THEN BigNorm(SubSeq(a, 1, Len(a) - 1))
    ELSE a

RECURSIVE BigFromNat(_)
BigFromNat(n) == IF n = 0 THEN <<>> ELSE <<n % LimbBase>> \o BigFromNat(n \div LimbBase)

RECURSIVE BigToNat(_)
BigToNat(a) == IF a = <<>> THEN 0 ELSE a[1] + LimbBase * BigToNat(Tail(a))

Limb(a, i) == IF i <= Len(a) THEN a[i] ELSE 0

RECURSIVE AddCarry(_, _, _, _)
AddCarry(a, b, i, c) ==
    IF i > Len(a) /\ i > Len(b)
    THEN (IF c = 0 THEN <<>> ELSE <<c>>)
    ELSE LET t == Limb(a, i) + Limb(b, i) + c
         IN  <<t % LimbBase>> \o AddCarry(a, b, i + 1, t \div LimbBase)

BigAdd(a, b) == BigNorm(AddCarry(a, b, 1, 0))

RECURSIVE SubBorrow(_, _, _, _)
SubBorrow(a, b, i, c) ==
    IF i > Len(a) THEN <<>>
    ELSE LET t == a[i] - Limb(b, i) - c
         IN  IF t < 0 THEN <<t + LimbBase>> \o SubBorrow(a, b, i + 1, 1)
             ELSE <<t>> \o SubBorrow(a, b, i + 1, 0)

\* a - b for a >= b
BigSub(a, b) == BigNorm(SubBorrow(a, b, 1, 0))

RECURSIVE CmpFrom(_, _, _)
CmpFrom(a, b, i) ==
    IF i = 0 THEN 0
    ELSE IF a[i] > b[i] THEN 1
    ELSE IF a[i] < b[i] THEN -1
    ELSE CmpFrom(a, b, i - 1)

BigCmp(a, b) ==
    IF Len(a) > Len(b) THEN 1
    ELSE IF Len(a) < Len(b) THEN -1
    ELSE CmpFrom(a, b, Len(a))

RECURSIVE MulSmallFrom(_, _, _, _)
MulSmallFrom(a, d, i, c) ==
    IF i > Len(a)
    THEN (IF c = 0 THEN <<>> ELSE <<c>>)
    ELSE LET t == a[i] * d + c
         IN  <<t % LimbBase>> \o MulSmallFrom(a, d, i + 1, t \div LimbBase)

\* a * d for 0 <= d < LimbBase
BigMulSmall(a, d) == IF d = 0 THEN <<>> ELSE MulSmallFrom(a, d, 1, 0)

RECURSIVE MulFrom(_, _, _)
MulFrom(a, b, i) ==
    IF i > Len(b) THEN <<>>
    ELSE BigAdd(Zeros(i - 1) \o BigMulSmall(a, b[i]), MulFrom(a, b, i + 1))

BigMul(a, b) == BigNorm(MulFrom(a, b, 1))

BigShl(a, k) ==
    IF a = <<>> THEN <<>>
    ELSE Zeros(k \div LimbBits) \o BigMulSmall(a, Pow2(k % LimbBits))

BigShr(a, k) ==
    IF k \div LimbBits >= Len(a) THEN <<>>
    ELSE LET b == SubSeq(a, (k \div LimbBits) + 1, Len(a))
             s == k % LimbBits
         IN  BigNorm([i \in 1..Len(b) |->
                 (b[i] \div Pow2(s)) + (Limb(b, i + 1) % Pow2(s)) * Pow2(LimbBits - s)])

RECURSIVE SmallBitLen(_)
SmallBitLen(n) == IF n = 0 THEN 0 ELSE 1 + SmallBitLen(n \div 2)

BitLen(a) == IF a = <<>> THEN 0 ELSE (Len(a) - 1) * LimbBits + SmallBitLen(a[Len(a)])

\* bit i (0 = least significant) of a
Bit(a, i) == (Limb(a, (i \div LimbBits) + 1) \div Pow2(i % LimbBits)) % 2

\* One quotient limb: the largest d < LimbBase with d * b <= r, for r < b * LimbBase
\* and b's top limb >= LimbBase / 2.  The estimate from the two top limbs of r
\* and the top limb of b is at most 2 too large (Knuth, TAOCP 4.3.1, Theorem B).
QDigit(r, b) ==
    LET n   == Len(b)
        top == Limb(r, n + 1) * LimbBase + Limb(r, n)
        e0  == top \div b[n]
        est == IF e0 > LimbBase - 1 THEN LimbBase - 1 ELSE e0
    IN  IF BigCmp(BigMulSmall(b, est), r) <= 0 THEN est
        ELSE IF BigCmp(BigMulSmall(b, est - 1), r) <= 0 THEN est - 1
        ELSE est - 2

\* One step of schoolbook long division: p = <<q, r>> is the result for the
\* limbs above x; bring down limb x and produce the next quotient limb
DivStep(x, b, p) ==
    IF p[2] = <<>> /\ x = 0 THEN <<BigNorm(<<0>> \o p[1]), <<>>>>
    ELSE LET r2 == <<x>> \o p[2]
             d  == QDigit(r2, b)
         IN  <<BigNorm(<<d>> \o p[1]), BigSub(r2, BigMulSmall(b, d))>>

RECURSIVE DivFrom(_, _, _)
\* <<q, r>> of dividing the limbs i..Len(a) of a by b; the top Len(b) - 1
\* limbs of a are below b and start as the remainder
DivFrom(a, b, i) ==
    IF i > Len(a) - (Len(b) - 1) THEN <<(<<>>), BigNorm(SubSeq(a, i, Len(a)))>>
    ELSE DivStep(a[i], b, DivFrom(a, b, i + 1))

\* <<a div b, a mod b>> for b > 0; both are first shifted left so that the
\* top limb of the divisor has its high bit set
BigDivMod(a, b) ==
    LET s  == LimbBits - SmallBitLen(b[Len(b)])
        qr == DivFrom(BigShl(a, s), BigShl(b, s), 1)
    IN  <<qr[1], BigShr(qr[2], s)>>

\* ------------------------------------------------------------------------
\* binary64 values: [s |-> sign bit, m |-> 53-bit mantissa, e |-> exponent],
\* value (-1)^s * m * 2^e; zero has m = <<>>.
\* ------------------------------------------------------------------------
FZero == [s |-> 0, m |-> <<>>, e |-> 0]

\* Round the exact value (-1)^s * (m + eps) * 2^e to nearest, ties to even,
\* where 0 < eps < 1 when sticky and eps = 0 otherwise.
RoundF(s, m, e, sticky) ==
    LET n == BitLen(m)
    IN  IF m = <<>> THEN FZero
        ELSE IF n <= MantBits
        THEN [s |-> s, m |-> BigShl(m, MantBits - n), e |-> e - (MantBits - n)]
        ELSE LET k    == n - MantBits
                 q    == BigShr(m, k)
                 rbit == Bit(m, k - 1)
                 low  == sticky \/ BigShl(BigShr(m, k - 1), k - 1) # m
                 up   == rbit = 1 /\ (low \/ Bit(q, 0) = 1)
                 q2   == IF up THEN BigAdd(q, <<1>>) ELSE q
             IN  IF BitLen(q2) > MantBits
                 THEN [s |-> s, m |-> BigShr(q2, 1), e |-> e + k + 1]
                 ELSE [s |-> s, m |-> q2, e |-> e + k]

\* float(n) for a Python int n, |n| < 2^31 (exact)
FromInt(n) ==
    IF n < 0 THEN RoundF(1, BigFromNat(-n), 0, FALSE)
    ELSE RoundF(0, BigFromNat(n), 0, FALSE)

FNeg(x) == IF x.m = <<>> THEN x ELSE [x EXCEPT !.s = 1 - x.s]

FMul(x, y) ==
    IF x.m = <<>> \/ y.m = <<>> THEN FZero
    ELSE RoundF((x.s + y.s) % 2, BigMul(x.m, y.m), x.e + y.e, FALSE)

\* x / y for y # 0
FDiv(x, y) ==
    IF x.m = <<>> THEN FZero
    ELSE LET qr == BigDivMod(BigShl(x.m, MantBits + 3), y.m)
         IN  RoundF((x.s + y.s) % 2, qr[1], x.e - (MantBits + 3) - y.e, qr[2] # <<>>)

FAdd(x, y) ==
    IF x.m = <<>> THEN y
    ELSE IF y.m = <<>> THEN x
    ELSE LET e  == IF x.e < y.e THEN x.e ELSE y.e
             mx == BigShl(x.m, x.e - e)
             my == BigShl(y.m, y.e - e)
             c  == BigCmp(mx, my)
         IN  IF x.s = y.s THEN RoundF(x.s, BigAdd(mx, my), e, FALSE)
             ELSE IF c = 0 THEN FZero
             ELSE IF c > 0 THEN RoundF(x.s, BigSub(mx, my), e, FALSE)
             ELSE RoundF(y.s, BigSub(my, mx), e, FALSE)

FSub(x, y) == FAdd(x, FNeg(y))

\* x < y
FLess(x, y) ==
    LET d == FSub(x, y) IN d.m # <<>> /\ d.s = 1

\* int(x): truncation toward zero, as a signed integer
FTrunc(x) ==
    LET mag == IF x.e >= 0 THEN BigToNat(BigShl(x.m, x.e))
               ELSE BigToNat(BigShr(x.m, -x.e))
    IN  IF x.s = 1 THEN -mag ELSE mag

\* float("<n>/<d> as a decimal literal"): the double nearest to n/d
FDec(n, d) == FDiv(FromInt(n), FromInt(d))


\* ------------------------------------------------------------------------
\* The planner
\* ------------------------------------------------------------------------
\* CONTAINER_OVERHEAD left at 1.0
NoContainerOverhead == FromInt(1)

\* CONTAINER_OVERHEAD = 0.98
CONTAINER_OVERHEAD == FDec(98, 100)

min_kbps_for_1080p == 1500
min_kbps_for_720p == 600

\* calculate_target_resolution returns None
NoRescale == <<>>

\* min(width, height) if width < height else height
CurrentHeight(width, height) ==
    IF width < height THEN (IF width < height THEN width ELSE height) ELSE height

\* TargetHeight with the tier tests written >= instead of >
TargetHeightNonStrict(width, height, vid_kbps) ==
    IF vid_kbps < min_kbps_for_720p /\ CurrentHeight(width, height) >= 480 THEN 480
    ELSE IF vid_kbps < min_kbps_for_1080p /\ CurrentHeight(width, height) >= 720 THEN 720
    ELSE 0

\* the tier chosen by the if / elif chain; 0 stands for the else branch
TargetHeight(width, height, vid_kbps) ==
    IF vid_kbps < min_kbps_for_720p /\ CurrentHeight(width, height) > 480 THEN 480
    ELSE IF vid_kbps < min_kbps_for_1080p /\ CurrentHeight(width, height) > 720 THEN 720
    ELSE 0

\* scale_factor = target_height / height
ScaleFactor(target_height, height) == FDiv(FromInt(target_height), FromInt(height))

\* Scaled rounding up where int() truncates
ScaledPlusOne(dim, scale_factor) == FTrunc(FMul(FromInt(dim), scale_factor)) + 1

\* int(dim * scale_factor)
Scaled(dim, scale_factor) == FTrunc(FMul(FromInt(dim), scale_factor))

\* ClearLowBit rounding an odd dimension up to the next even one
RoundUpToEven(n) == n + (n % 2)

\* n - (n % 2)
ClearLowBit(n) == n - (n % 2)

calculate_target_resolution(width, height, vid_kbps) ==
    LET target_height == TargetHeight(width, height, vid_kbps)
    IN  IF target_height = 0 THEN NoRescale
        ELSE LET scale_factor == ScaleFactor(target_height, height)
             IN  <<ClearLowBit(Scaled(width, scale_factor)),
                   ClearLowBit(Scaled(height, scale_factor))>>

\* effective_mb = target_mb * CONTAINER_OVERHEAD
EffectiveMb(mb) == FMul(mb, CONTAINER_OVERHEAD)

\* bits_total = effective_mb * 1024 * 1024 * 8
BitsTotal(eff_mb) ==
    FMul(FMul(FMul(eff_mb, FromInt(1024)), FromInt(1024)), FromInt(8))

VidFloorBps == 100000

\* aud_bps = audio_kbps * 1000
AudBps(audio_kbps) == audio_kbps * 1000

\* MaxFloor without the max()
MaxFloorMissing(x) == x

\* max(x, 100_000): the second argument replaces the first only when greater
MaxFloor(x) == IF FLess(x, FromInt(VidFloorBps)) THEN FromInt(VidFloorBps) ELSE x

\* vid_bps = max(bits_total / dur - aud_bps, 100_000), for dur # 0
VidBps(bits, audio_kbps, d) ==
    MaxFloor(FSub(FDiv(bits, d), FromInt(AudBps(audio_kbps))))

\* vid_kbps = int(vid_bps / 1000)
VidKbps(bps) == FTrunc(FDiv(bps, FromInt(1000)))

\* ------------------------------------------------------------------------
\* Inputs the model draws from
\* ------------------------------------------------------------------------
\* return codes 0..MaxRet, plus 255 and death by SIGKILL (returncode -9)
MaxRet == 2
RetCodes == (0..MaxRet) \cup {255, -9}

\* --size as typed, in tenths of a MB (98 is the default "9.8")
SizeArgs == {1, 98, 500}
\* --audio-kbps
AudioArgs == {0, 96}
\* format.duration as printed by ffprobe, in milliseconds
DurationsMs == {-5000, 0, 1000, 73000, 120000, 135000, 3600000, 86400000}
\* streams[0].width, streams[0].height
Resolutions == {<<1920, 1080>>, <<1280, 704>>, <<1080, 1920>>, <<640, 360>>}

\* dimensions and bitrates for calculate_target_resolution on its own
Spread == 1
Near(t) == (t - Spread)..(t + Spread)
DimSet == Near(480) \cup Near(720) \cup {2, 360, 704, 1080, 1280, 1920, 3840, 115441, 259561}
KbpsSet == {0, 100, 500, 599, 600, 1000, 1499, 1500, 5000}

\* ------------------------------------------------------------------------
\* State
\* ------------------------------------------------------------------------
VARIABLES
    pc,          \* position in main() / reencode()
    args,        \* argparse namespace: size (tenths of MB), audio_kbps, auto_scale
    target_mb,   \* args.size as the float handed to reencode
    probe_json,  \* what ffprobe printed: duration_ms, width, height
    dur,         \* info["duration"], a float
    width,       \* info["width"]
    height,      \* info["height"]
    effective_mb, \* target_mb * CONTAINER_OVERHEAD
    bits_total,  \* the size budget in bits
    vid_bps,     \* video bits per second, floored
    vid_kbps,    \* the video bitrate, NoKbps until computed
    target_res,  \* NoRescale or <<new_width, new_height>>
    procs,       \* the subprocess.run calls made so far, in order
    rets,        \* the return codes of the calls that have finished
    tmpdir,      \* "none", "held" or "released"
    exc,         \* the exception in flight
    exit_code    \* exit status of the run, NoExit while running

vars == <<pc, args, target_mb, probe_json, dur, width, height, effective_mb,
          bits_total, vid_bps, vid_kbps, target_res, procs, rets, tmpdir, exc,
          exit_code>>

\* the locals of the bitrate computation
plan == <<effective_mb, bits_total, vid_bps, vid_kbps, target_res>>

NoKbps == -1
NoExit == -1
NoJson == [duration_ms |-> 0, width |-> 0, height |-> 0, ok |-> FALSE]
NoExc == [type |-> "None", returncode |-> 0]
CalledProcessError(rc) == [type |-> "CalledProcessError", returncode |-> rc]
OtherError(name) == [type |-> name, returncode |-> 0]

FfprobeCmd == [prog |-> "ffprobe", pass |-> 0, b_v |-> 0, vf |-> <<>>]
\* ffmpeg -y *base_args -pass n ...: base_args carry -b:v and the scale filter
FfmpegCmd(n) == [prog |-> "ffmpeg", pass |-> n, b_v |-> vid_kbps, vf |-> target_res]

\* exit status the parent of the run sees for sys.exit(n)
ExitStatus(n) == n % 256

Init ==
    /\ pc = "main"
    /\ \E size \in SizeArgs, a \in AudioArgs, auto \in BOOLEAN :
          /\ args = [size |-> size, audio_kbps |-> a, auto_scale |-> auto]
          /\ target_mb = FDec(size, 10)
    /\ probe_json = NoJson
    /\ dur = FZero
    /\ width = 0
    /\ height = 0
    /\ effective_mb = FZero
    /\ bits_total = FZero
    /\ vid_bps = FZero
    /\ vid_kbps = NoKbps
    /\ target_res = NoRescale
    /\ procs = <<>>
    /\ rets = <<>>
    /\ tmpdir = "none"
    /\ exc = NoExc
    /\ exit_code = NoExit

\* get_video_info: ffprobe fails (check=True raises), prints JSON without the
\* expected keys, or prints duration, width and height
Probe ==
    /\ pc = "main"
    /\ procs' = Append(procs, FfprobeCmd)
    /\ \E rc \in RetCodes :
          /\ rets' = Append(rets, rc)
          /\ IF rc # 0
             THEN /\ exc' = CalledProcessError(rc)
                  /\ pc' = "except"
                  /\ UNCHANGED <<probe_json, dur, width, height>>
             ELSE \/ /\ exc' = OtherError("KeyError")
                     /\ pc' = "except"
                     /\ UNCHANGED <<probe_json, dur, width, height>>
                  \/ \E ms \in DurationsMs, res \in Resolutions :
                        /\ probe_json' = [duration_ms |-> ms, width |-> res[1],
                                          height |-> res[2], ok |-> TRUE]
                        /\ dur' = FDec(ms, 1000)
                        /\ width' = res[1]
                        /\ height' = res[2]
                        /\ exc' = NoExc
                        /\ pc' = "plan"
    /\ UNCHANGED <<args, target_mb, plan, tmpdir, exit_code>>

\* reencode, from effective_mb to base_args; bits_total / dur raises
\* ZeroDivisionError for a zero duration
Plan ==
    /\ pc = "plan"
    /\ effective_mb' = EffectiveMb(target_mb)
    /\ bits_total' = BitsTotal(effective_mb')
    /\ IF dur.m = <<>>
       THEN /\ exc' = OtherError("ZeroDivisionError")
            /\ pc' = "except"
            /\ UNCHANGED <<vid_bps, vid_kbps, target_res>>
       ELSE /\ vid_bps' = VidBps(bits_total', args.audio_kbps, dur)
            /\ vid_kbps' = VidKbps(vid_bps')
            /\ target_res' = IF args.auto_scale
                             THEN calculate_target_resolution(width, height, vid_kbps')
                             ELSE NoRescale
            /\ pc' = "with"
            /\ UNCHANGED exc
    /\ UNCHANGED <<args, target_mb, probe_json, dur, width, height, procs, rets,
                   tmpdir, exit_code>>

\* with tempfile.TemporaryDirectory() as tmpdir
EnterTmp ==
    /\ pc = "with"
    /\ tmpdir' = "held"
    /\ pc' = "pass1"
    /\ UNCHANGED <<args, target_mb, probe_json, dur, width, height, plan,
                   procs, rets, exc, exit_code>>

\* subprocess.run(pass1_cmd, check=True): the call is made
StartPass1 ==
    /\ pc = "pass1"
    /\ procs' = Append(procs, FfmpegCmd(1))
    /\ pc' = "wait1"
    /\ UNCHANGED <<args, target_mb, probe_json, dur, width, height, plan,
                   rets, tmpdir, exc, exit_code>>

\* EndPass1 as with check=False: the return code is ignored
EndPass1Unchecked ==
    /\ pc = "wait1"
    /\ \E rc \in RetCodes : rets' = Append(rets, rc)
    /\ pc' = "pass2"
    /\ UNCHANGED <<args, target_mb, probe_json, dur, width, height, plan,
                   procs, tmpdir, exc, exit_code>>

\* ... and returns, raising CalledProcessError on a non-zero return code
EndPass1 ==
    /\ pc = "wait1"
    /\ \E rc \in RetCodes :
          /\ rets' = Append(rets, rc)
          /\ IF rc # 0
             THEN exc' = CalledProcessError(rc) /\ pc' = "cleanup"
             ELSE exc' = exc /\ pc' = "pass2"
    /\ UNCHANGED <<args, target_mb, probe_json, dur, width, height, plan,
                   procs, tmpdir, exit_code>>

\* subprocess.run(pass2_cmd, check=True): the call is made
StartPass2 ==
    /\ pc = "pass2"
    /\ procs' = Append(procs, FfmpegCmd(2))
    /\ pc' = "wait2"
    /\ UNCHANGED <<args, target_mb, probe_json, dur, width, height, plan,
                   rets, tmpdir, exc, exit_code>>

EndPass2 ==
    /\ pc = "wait2"
    /\ \E rc \in RetCodes :
          /\ rets' = Append(rets, rc)
          /\ exc' = IF rc # 0 THEN CalledProcessError(rc) ELSE exc
          /\ pc' = "cleanup"
    /\ UNCHANGED <<args, target_mb, probe_json, dur, width, height, plan,
                   procs, tmpdir, exit_code>>

\* ExitTmp deleting the directory only when no exception is in flight
ExitTmpOnSuccessOnly ==
    /\ pc = "cleanup"
    /\ tmpdir' = IF exc = NoExc THEN "released" ELSE tmpdir
    /\ pc' = IF exc = NoExc THEN "stat" ELSE "except"
    /\ UNCHANGED <<args, target_mb, probe_json, dur, width, height, plan,
                   procs, rets, exc, exit_code>>

\* leaving the with block, normally or by an exception
ExitTmp ==
    /\ pc = "cleanup"
    /\ tmpdir' = "released"
    /\ pc' = IF exc = NoExc THEN "stat" ELSE "except"
    /\ UNCHANGED <<args, target_mb, probe_json, dur, width, height, plan,
                   procs, rets, exc, exit_code>>

\* dst.stat() and the [done] line; main then returns and the run exits 0
Stat ==
    /\ pc = "stat"
    /\ \E dst_exists \in BOOLEAN :
          IF dst_exists
          THEN /\ pc' = "exited"
               /\ exit_code' = 0
               /\ UNCHANGED exc
          ELSE /\ pc' = "except"
               /\ exc' = OtherError("FileNotFoundError")
               /\ UNCHANGED exit_code
    /\ UNCHANGED <<args, target_mb, probe_json, dur, width, height, plan,
                   procs, rets, tmpdir>>

\* MainExcept exiting 1 whatever the exception carries
MainExceptAlwaysOne ==
    /\ pc = "except"
    /\ exit_code' = 1
    /\ pc' = "exited"
    /\ UNCHANGED <<args, target_mb, probe_json, dur, width, height, plan,
                   procs, rets, tmpdir, exc>>

\* main's except clause: sys.exit(e.returncode) for CalledProcessError; any
\* other exception is uncaught and the interpreter exits with status 1
MainExcept ==
    /\ pc = "except"
    /\ exit_code' = IF exc.type = "CalledProcessError"
                    THEN ExitStatus(exc.returncode)
                    ELSE 1
    /\ pc' = "exited"
    /\ UNCHANGED <<args, target_mb, probe_json, dur, width, height, plan,
                   procs, rets, tmpdir, exc>>

Next ==
    \/ Probe
    \/ Plan
    \/ EnterTmp
    \/ StartPass1
    \/ EndPass1
    \/ StartPass2
    \/ EndPass2
    \/ ExitTmp
    \/ Stat
    \/ MainExcept

Spec == Init /\ [][Next]_vars

\* ------------------------------------------------------------------------
\* calculate_target_resolution applied to a triple of its own
\* ------------------------------------------------------------------------
InitCalc ==
    /\ pc = "calc"
    /\ args = [size |-> 98, audio_kbps |-> 96, auto_scale |-> TRUE]
    /\ target_mb = FZero
    /\ probe_json = NoJson
    /\ dur = FZero
    /\ width \in DimSet
    /\ height \in DimSet
    /\ effective_mb = FZero
    /\ bits_total = FZero
    /\ vid_bps = FZero
    /\ vid_kbps \in KbpsSet
    /\ target_res = NoRescale
    /\ procs = <<>>
    /\ rets = <<>>
    /\ tmpdir = "none"
    /\ exc = NoExc
    /\ exit_code = NoExit

Calc ==
    /\ pc = "calc"
    /\ target_res' = calculate_target_resolution(width, height, vid_kbps)
    /\ pc' = "returned"
    /\ UNCHANGED <<args, target_mb, probe_json, dur, width, height, effective_mb,
                   bits_total, vid_bps, vid_kbps, procs, rets, tmpdir, exc,
                   exit_code>>

NextCalc == Calc

SpecCalc == InitCalc /\ [][NextCalc]_vars

\* ------------------------------------------------------------------------
\* Properties
\* ------------------------------------------------------------------------
\* the bitrate computation has run to its end
PlanDone == pc = "with" \/ tmpdir # "none"

\* positions in procs of the encoder invocations, and of pass n
EncoderCalls == {i \in DOMAIN procs : procs[i].prog = "ffmpeg"}
PassCalls(n) == {i \in EncoderCalls : procs[i].pass = n}

\* the tier a returned pair was scaled to: 480 is chosen exactly when
\* vid_kbps < 600, 720 otherwise
SelectedTier == IF vid_kbps < 600 THEN 480 ELSE 720

\* C1: for a probed duration > 0, a size > 0 and an audio bitrate >= 0, the
\* video bitrate reencode computes is an integer >= 100, and so is the -b:v of
\* every encoder invocation.
C1_VidKbpsAtLeastFloor ==
    (PlanDone /\ probe_json.duration_ms > 0 /\ args.size > 0 /\ args.audio_kbps >= 0)
        => /\ vid_kbps \in Int
           /\ vid_kbps >= 100
           /\ \A i \in EncoderCalls : procs[i].b_v \in Int /\ procs[i].b_v >= 100

\* C1 witness: 0.1 MB over 24 hours with 96 kbps audio; both passes were
\* invoked at the floor.
C1_Witness ==
    /\ args.size = 1 /\ args.audio_kbps = 96 /\ probe_json.duration_ms = 86400000
    /\ vid_kbps = 100
    /\ PassCalls(1) # {} /\ PassCalls(2) # {}
    /\ \A i \in EncoderCalls : procs[i].b_v = 100

\* C2: the decision is by first match: vid_kbps < 600 and tier height > 480
\* gives 480; else vid_kbps < 1500 and tier height > 720 gives 720; else None.
\* The tier height is the width when width < height, else the height, and both
\* comparisons are strict.  (The returned height is the tier, or the tier less
\* two.)
C2_FirstMatchDecision ==
    pc = "returned" =>
        LET tier  == IF width < height THEN width ELSE height
            to480 == vid_kbps < 600 /\ tier > 480
            to720 == ~to480 /\ vid_kbps < 1500 /\ tier > 720
        IN  /\ to480 => (target_res # NoRescale /\ target_res[2] \in {478, 480})
            /\ to720 => (target_res # NoRescale /\ target_res[2] \in {718, 720})
            /\ (~to480 /\ ~to720) => target_res = NoRescale

\* C2 witness: 1280x720 at 1000 kbps, tier height exactly 720, is not rescaled.
C2_Witness ==
    /\ pc = "returned"
    /\ width = 1280 /\ height = 720 /\ vid_kbps = 1000
    /\ target_res = NoRescale

\* C3 as stated: 1920x1080 at 500 kbps is rescaled to (854, 480).
C3_Returns854x480 ==
    (pc = "returned" /\ width = 1920 /\ height = 1080 /\ vid_kbps = 500)
        => target_res = <<854, 480>>

\* C3 amended: 1920x1080 at 500 kbps is rescaled to (852, 480): the width
\* 1920 * 480 / 1080 = 853.33 is truncated to 853 and its low bit cleared.
C3_Returns852x480 ==
    (pc = "returned" /\ width = 1920 /\ height = 1080 /\ vid_kbps = 500)
        => target_res = <<852, 480>>

\* C3 witness: the call on 1920x1080 at 500 kbps has returned a pair.
C3_Witness ==
    /\ pc = "returned"
    /\ width = 1920 /\ height = 1080 /\ vid_kbps = 500
    /\ target_res # NoRescale

\* C4 as stated: a returned pair is even in both axes and each value is within
\* one pixel of exact scaling: |new_width - width * tier / height| <= 1 and
\* |new_height - tier| <= 1.
C4_WithinOnePixel ==
    (pc = "returned" /\ target_res # NoRescale) =>
        LET t  == SelectedTier
            dw == width * t - target_res[1] * height
            dh == t - target_res[2]
        IN  /\ target_res[1] % 2 = 0
            /\ target_res[2] % 2 = 0
            /\ dw <= height /\ -dw <= height
            /\ dh <= 1 /\ -dh <= 1

\* C4 amended: a returned pair is even in both axes, never above exact
\* scaling and at most two pixels below it:
\* 0 <= width * tier / height - new_width <= 2 and 0 <= tier - new_height <= 2.
C4_WithinTwoPixelsBelow ==
    (pc = "returned" /\ target_res # NoRescale) =>
        LET t  == SelectedTier
            dw == width * t - target_res[1] * height
            dh == t - target_res[2]
        IN  /\ target_res[1] % 2 = 0
            /\ target_res[2] % 2 = 0
            /\ 0 <= dw /\ dw <= 2 * height
            /\ 0 <= dh /\ dh <= 2

\* C4 witness: 1280x704 at 500 kbps returns (872, 478): 704 * (480 / 704) is
\* just below 480 in floating point, so the height comes out two below the tier.
C4_Witness ==
    /\ pc = "returned"
    /\ width = 1280 /\ height = 704 /\ vid_kbps = 500
    /\ target_res = <<872, 478>>

\* C5 as stated: 9.8 MB, 120 s and 96 kbps audio give vid_kbps = 574.
C5_Yields574 ==
    (PlanDone /\ args.size = 98 /\ args.audio_kbps = 96
        /\ probe_json.duration_ms = 120000) => vid_kbps = 574

\* C5 amended: 9.8 MB, 120 s and 96 kbps audio give vid_kbps = 575:
\* bits_total is 9.604 * 1,048,576 * 8 = 80,564,191.2 and
\* vid_bps is 80,564,191.2 / 120 - 96,000 = 575,368.26.
C5_Yields575 ==
    (PlanDone /\ args.size = 98 /\ args.audio_kbps = 96
        /\ probe_json.duration_ms = 120000)
        => /\ FTrunc(bits_total) = 80564191
           /\ FTrunc(vid_bps) = 575368
           /\ vid_kbps = 575

\* C5 witness: the plan for 9.8 MB, 120 s, 96 kbps is complete and pass 1 has
\* been invoked with it.
C5_Witness ==
    /\ args.size = 98 /\ args.audio_kbps = 96 /\ probe_json.duration_ms = 120000
    /\ PassCalls(1) # {}
    /\ \A i \in EncoderCalls : procs[i].b_v = vid_kbps

\* C6 as stated: a probed duration that is not > 0 fails the run at the
\* planning stage: no video bitrate is produced, no encoder invocation is
\* issued, and the run does not exit 0.
C6_NonPositiveDurationRejected ==
    (probe_json.ok /\ probe_json.duration_ms <= 0)
        => /\ vid_kbps = NoKbps
           /\ EncoderCalls = {}
           /\ pc = "exited" => exit_code # 0

\* C7: when ffprobe's return code is not 0, nothing but ffprobe is ever run,
\* no temporary directory is acquired, the run goes straight to its exit, and
\* an exit status s in 1..255 of ffprobe is the exit status of the run.
C7_ProbeFailureExitsWithStatus ==
    (Len(rets) >= 1 /\ rets[1] # 0)
        => /\ Len(procs) = 1
           /\ EncoderCalls = {}
           /\ tmpdir = "none"
           /\ pc \in {"except", "exited"}
           /\ pc = "exited" => exit_code # 0
           /\ (pc = "exited" /\ rets[1] > 0) => exit_code = rets[1]

\* C7 witness: ffprobe exited 2 and the run has ended.
C7_Witness ==
    /\ pc = "exited"
    /\ rets = <<2>>
    /\ exit_code = 2

\* C8: ffprobe, pass 1, pass 2 run in that order, each pass at most once;
\* pass 2 is invoked only after pass 1 returned 0; exit code 0 is reached only
\* after both passes returned 0; a non-zero exit status of a pass ends the run
\* with that status and with no further invocation.
C8_LinearTwoPass ==
    /\ Cardinality(PassCalls(1)) <= 1
    /\ Cardinality(PassCalls(2)) <= 1
    /\ Len(procs) <= 3
    /\ PassCalls(1) \subseteq {2}
    /\ PassCalls(2) \subseteq {3}
    /\ PassCalls(2) # {} => (Len(rets) >= 2 /\ rets[1] = 0 /\ rets[2] = 0)
    /\ (pc = "exited" /\ exit_code = 0) => rets = <<0, 0, 0>>
    /\ (Len(rets) >= 2 /\ rets[2] # 0)
          => /\ PassCalls(2) = {}
             /\ pc \in {"cleanup", "except", "exited"}
             /\ pc = "exited" => exit_code # 0
             /\ (pc = "exited" /\ rets[2] > 0) => exit_code = rets[2]
    /\ (Len(rets) >= 3 /\ rets[3] # 0)
          => /\ pc \in {"cleanup", "except", "exited"}
             /\ pc = "exited" => exit_code # 0
             /\ (pc = "exited" /\ rets[3] > 0) => exit_code = rets[3]

\* C8 witness: pass 1 returned 0, pass 2 exited 2, and the run ended with 2.
C8_Witness ==
    /\ pc = "exited"
    /\ rets = <<0, 0, 2>>
    /\ exit_code = 2

\* C9: the temporary directory is held whenever an encoder runs, was acquired
\* before any encoder invocation, and is released when the run has ended.
C9_TmpdirScoped ==
    /\ pc \in {"wait1", "wait2"} => tmpdir = "held"
    /\ EncoderCalls # {} => tmpdir # "none"
    /\ pc = "pass1" => tmpdir = "held"
    /\ pc = "exited" => tmpdir # "held"
    /\ (pc = "exited" /\ EncoderCalls # {}) => tmpdir = "released"

\* C9 witness: pass 1 exited 1 and the run ended with the directory released.
C9_Witness ==
    /\ pc = "exited"
    /\ rets = <<0, 1>>
    /\ tmpdir = "released"

\* C10 as stated: for width > 0 and height > 0 both values of a returned pair
\* are >= 2.
C10_DimensionsPositive ==
    (pc = "returned" /\ target_res # NoRescale /\ width > 0 /\ height > 0)
        => target_res[1] >= 2 /\ target_res[2] >= 2

====
